---- MODULE Spec2Model ----
(***************************************************************************)
(* A model of action-conftest (main.go): the run() driver with its         *)
(* external calls, the pull URL composer, the flag derivation and the      *)
(* result aggregation.                                                     *)
(*                                                                         *)
(* Go strings are sequences of one-character strings, so that Split,       *)
(* ToLower, ReplaceAll and url.Parse are computed character by character.  *)
(* Text that the program only copies (a message, a fixed phrase of the     *)
(* comment template) is kept as one element.                               *)
(***************************************************************************)
EXTENDS Integers, Sequences, FiniteSets, TLC

\* ------------------------------------------------------------------ bounds
\* characters of PULL_URL after its scheme prefix
MaxBody == 4
\* findings of one severity in the file the driver's conftest run reports on
RunMaxFindings == 1
\* files and findings of a result list handed to the aggregation on its own
MaxFiles == 2
MaxFindings == 2

\* ----------------------------------------------------------- string helpers
EmptyStr == <<>>

\* strings.Index for a one-character separator: 0 when absent
RECURSIVE IndexFrom(_, _, _)
IndexFrom(s, c, i) ==
    IF i > Len(s) THEN 0
    ELSE IF s[i] = c THEN i
    ELSE IndexFrom(s, c, i + 1)

Index(s, c) == IndexFrom(s, c, 1)

\* strings.LastIndex for a one-character separator: 0 when absent
RECURSIVE LastIndexFrom(_, _, _)
LastIndexFrom(s, c, i) ==
    IF i < 1 THEN 0
    ELSE IF s[i] = c THEN i
    ELSE LastIndexFrom(s, c, i - 1)

LastIndex(s, c) == LastIndexFrom(s, c, Len(s))

\* strings.Count for a one-character separator
Count(s, c) == Cardinality({i \in 1..Len(s) : s[i] = c})

HasPrefix(s, p) == Len(s) >= Len(p) /\ SubSeq(s, 1, Len(p)) = p

From(s, i) == SubSeq(s, i, Len(s))

\* strings.Split(s, sep) for a one-character separator: always at least one
\* element, the pieces between the separators
RECURSIVE Split(_, _)
Split(s, c) ==
    LET i == Index(s, c) IN
    IF i = 0 THEN <<s>>
    ELSE <<SubSeq(s, 1, i - 1)>> \o Split(From(s, i + 1), c)

\* net/url split(s, sep, cutc = true): cut at the first separator, which is dropped
CutFirst(s, c) ==
    LET i == Index(s, c) IN
    IF i = 0 THEN <<s, EmptyStr>>
    ELSE <<SubSeq(s, 1, i - 1), From(s, i + 1)>>

\* net/url split(s, sep, cutc = false): cut at the first separator, which is kept
CutKeep(s, c) ==
    LET i == Index(s, c) IN
    IF i = 0 THEN <<s, EmptyStr>>
    ELSE <<SubSeq(s, 1, i - 1), From(s, i)>>

Digits == {"8"}

\* ------------------------------------------------------------ net/url Parse
\* net/url validOptionalPort
validOptionalPort(port) ==
    \/ port = EmptyStr
    \/ /\ port[1] = ":"
       /\ \A i \in 2..Len(port) : port[i] \in Digits

\* net/url parseHost; the characters of the model are all legal in a host,
\* so the only failure is the port
parseHost(host) ==
    LET i == LastIndex(host, ":") IN
    IF i # 0 /\ ~validOptionalPort(From(host, i))
    THEN [err |-> "invalid port", host |-> EmptyStr]
    ELSE [err |-> "", host |-> host]

\* net/url parseAuthority: the host is what follows the last "@"
parseAuthority(authority) ==
    LET i == LastIndex(authority, "@") IN
    IF i = 0 THEN parseHost(authority) ELSE parseHost(From(authority, i + 1))

\* net/url Parse, for a URL with a scheme: the fragment is cut at the first
\* "#", the query at the first "?", the authority runs from "//" to the next "/"
urlParse(rawurl) ==
    LET fr    == CutFirst(rawurl, "#")
        u     == fr[1]
        sch   == CutFirst(u, ":")
        rest0 == sch[2]
        q     == IF rest0 # EmptyStr /\ rest0[Len(rest0)] = "?" /\ Count(rest0, "?") = 1
                 THEN <<SubSeq(rest0, 1, Len(rest0) - 1), EmptyStr>>
                 ELSE CutFirst(rest0, "?")
        rest  == q[1]
    IN  IF ~HasPrefix(rest, <<"/">>)
        THEN [err |-> "", Scheme |-> sch[1], Opaque |-> rest, Host |-> EmptyStr,
              Path |-> EmptyStr, RawQuery |-> q[2], Fragment |-> fr[2]]
        ELSE IF HasPrefix(rest, <<"/", "/">>)
        THEN LET a == CutKeep(From(rest, 3), "/")
                 h == parseAuthority(a[1])
             IN  IF h.err # ""
                 THEN [err |-> h.err, Scheme |-> sch[1], Opaque |-> EmptyStr,
                       Host |-> EmptyStr, Path |-> EmptyStr, RawQuery |-> EmptyStr,
                       Fragment |-> EmptyStr]
                 ELSE [err |-> "", Scheme |-> sch[1], Opaque |-> EmptyStr,
                       Host |-> h.host, Path |-> a[2], RawQuery |-> q[2],
                       Fragment |-> fr[2]]
        ELSE [err |-> "", Scheme |-> sch[1], Opaque |-> EmptyStr, Host |-> EmptyStr,
              Path |-> rest, RawQuery |-> q[2], Fragment |-> fr[2]]

\* -------------------------------------------------------- pull URL composer
SchemeHTTPS == <<"h", "t", "t", "p", "s", ":">>
SchemeGCS   == <<"g", "c", "s", ":", ":">> \o SchemeHTTPS
SchemeS3    == <<"s", "3", ":", ":">> \o SchemeHTTPS
SchemeOCI   == <<"o", "c", "i", ":">>

NoCreds == <<"no file written">>

\* getFullPullURL with the empty-secret return dropped: the scheme dispatch
\* also runs for an empty PULL_SECRET
getFullPullURLNoEarlyReturn(pullURL, pullSecret, writeOK) ==
    LET pullURLSplit == Split(pullURL, "/")
        pullURI      == pullURLSplit[1]
        ok(u, g)     == [url |-> u, err |-> "", gcs |-> g]
        fail(e)      == [url |-> EmptyStr, err |-> e, gcs |-> NoCreds]
    IN  IF pullURL = EmptyStr THEN ok(EmptyStr, NoCreds)
        ELSE IF Len(pullURLSplit) = 1 THEN fail("invalid url")
        ELSE IF pullURI = SchemeGCS
             THEN IF writeOK THEN ok(pullURL, pullSecret)
                  ELSE fail("writing gcs creds")
        ELSE IF pullURI = SchemeS3
             THEN ok(pullURL \o <<"?">> \o pullSecret, NoCreds)
        ELSE IF pullURI = SchemeHTTPS
             THEN LET u == urlParse(pullURL) IN
                  IF u.err # "" THEN fail("parsing url")
                  ELSE ok(SchemeHTTPS \o <<"/", "/">> \o pullSecret \o <<"@">>
                              \o u.Host \o u.Path, NoCreds)
        ELSE fail("PULL_SECRET not supported with uri")

\* getFullPullURL: PULL_URL and PULL_SECRET are read from the environment;
\* writeOK is whether ioutil.WriteFile("gcs.json") succeeds. gcs is the
\* content written to gcs.json (and GOOGLE_APPLICATION_CREDENTIALS is set).
getFullPullURL(pullURL, pullSecret, writeOK) ==
    LET pullURLSplit == Split(pullURL, "/")
        pullURI      == pullURLSplit[1]
        ok(u, g)     == [url |-> u, err |-> "", gcs |-> g]
        fail(e)      == [url |-> EmptyStr, err |-> e, gcs |-> NoCreds]
    IN  IF pullURL = EmptyStr THEN ok(EmptyStr, NoCreds)
        ELSE IF Len(pullURLSplit) = 1 THEN fail("invalid url")
        ELSE IF pullSecret = EmptyStr THEN ok(pullURL, NoCreds)
        ELSE IF pullURI = SchemeGCS
             THEN IF writeOK THEN ok(pullURL, pullSecret)
                  ELSE fail("writing gcs creds")
        ELSE IF pullURI = SchemeS3
             THEN ok(pullURL \o <<"?">> \o pullSecret, NoCreds)
        ELSE IF pullURI = SchemeHTTPS
             THEN LET u == urlParse(pullURL) IN
                  IF u.err # "" THEN fail("parsing url")
                  ELSE ok(SchemeHTTPS \o <<"/", "/">> \o pullSecret \o <<"@">>
                              \o u.Host \o u.Path, NoCreds)
        ELSE fail("PULL_SECRET not supported with uri")

\* ------------------------------------------------------------ flag derivation
UpperChars == <<"A", "B", "C", "D", "E", "F", "G", "H", "I", "J", "K", "L", "M",
                "N", "O", "P", "Q", "R", "S", "T", "U", "V", "W", "X", "Y", "Z">>
LowerChars == <<"a", "b", "c", "d", "e", "f", "g", "h", "i", "j", "k", "l", "m",
                "n", "o", "p", "q", "r", "s", "t", "u", "v", "w", "x", "y", "z">>

\* unicode.ToLower on the upper-case letters
LowerOf ==
    [c \in {UpperChars[k] : k \in 1..Len(UpperChars)} |->
        LowerChars[CHOOSE k \in 1..Len(UpperChars) : UpperChars[k] = c]]

\* strings.ToLower
ToLower(s) ==
    [i \in 1..Len(s) |-> IF s[i] \in DOMAIN LowerOf THEN LowerOf[s[i]] ELSE s[i]]

\* strings.ReplaceAll for one-character old and new
ReplaceAll(s, old, new) == [i \in 1..Len(s) |-> IF s[i] = old THEN new ELSE s[i]]

StrTrue  == <<"t", "r", "u", "e">>
StrFalse == <<"f", "a", "l", "s", "e">>

COMBINE        == <<"C", "O", "M", "B", "I", "N", "E">>
POLICY         == <<"P", "O", "L", "I", "C", "Y">>
ALL_NAMESPACES == <<"A", "L", "L", "_", "N", "A", "M", "E", "S", "P", "A", "C", "E", "S">>
DATA           == <<"D", "A", "T", "A">>
IRRELEVANT     == <<"I", "R", "R", "E", "L", "E", "V", "A", "N", "T">>

conftestFlags == <<COMBINE, POLICY, ALL_NAMESPACES, DATA>>

\* os.Getenv on an environment that maps the names that are set to their
\* values: an unset name reads as the empty string
Getenv(env, name) == IF name \in DOMAIN env THEN env[name] ELSE EmptyStr

\* os.Setenv, os.Unsetenv
Setenv(env, name, value) ==
    [n \in DOMAIN env \cup {name} |-> IF n = name THEN value ELSE env[n]]

Unsetenv(env, name) == [n \in DOMAIN env \ {name} |-> env[n]]

\* getFlagFromEnv
getFlagFromEnv(e) == <<"-", "-">> \o ToLower(ReplaceAll(e, "_", "-"))

\* getFlagsFromEnv comparing the value with "true" as written, not lower-cased
RECURSIVE getFlagsLoopExactTrue(_, _, _)
getFlagsLoopExactTrue(env, i, args) ==
    IF i > Len(conftestFlags) THEN args
    ELSE LET v == conftestFlags[i]
             e == Getenv(env, v)
         IN  IF e = EmptyStr \/ ToLower(e) = StrFalse
             THEN getFlagsLoopExactTrue(env, i + 1, args)
             ELSE IF e = StrTrue
             THEN getFlagsLoopExactTrue(env, i + 1, Append(args, getFlagFromEnv(v)))
             ELSE getFlagsLoopExactTrue(env, i + 1, args \o <<getFlagFromEnv(v), e>>)

\* the loop of getFlagsFromEnv from index i of conftestFlags on
RECURSIVE getFlagsLoop(_, _, _)
getFlagsLoop(env, i, args) ==
    IF i > Len(conftestFlags) THEN args
    ELSE LET v == conftestFlags[i]
             e == Getenv(env, v)
         IN  IF e = EmptyStr \/ ToLower(e) = StrFalse
             THEN getFlagsLoop(env, i + 1, args)
             ELSE IF ToLower(e) = StrTrue
             THEN getFlagsLoop(env, i + 1, Append(args, getFlagFromEnv(v)))
             ELSE getFlagsLoop(env, i + 1, args \o <<getFlagFromEnv(v), e>>)

getFlagsFromEnvExactTrue(env) == getFlagsLoopExactTrue(env, 1, <<>>)

\* getFlagsFromEnv
getFlagsFromEnv(env) == getFlagsLoop(env, 1, <<>>)

\* ---------------------------------------------------------- result aggregation
\* A decoded JSON value (interface{}): a string, a number, a mapping, or nil.
JStr(x) == [t |-> "string", s |-> x]
JNum(n) == [t |-> "number", n |-> n]
JMap(m) == [t |-> "map", m |-> m]
JNil    == [t |-> "nil"]

\* m[key] on a decoded mapping: nil for a key that is absent
MapGet(m, key) == IF key \in DOMAIN m THEN m[key] ELSE JNil

\* jsonResult.Metadata: NilMap when the "metadata" member is absent
NilMap == [k \in {} |-> JNil]

\* fmt.Sprintf("%v", v) for the values the model has
NumText == <<"7">>
NilText == <<"<", "n", "i", "l", ">">>
SprintV(v) ==
    CASE v.t = "string" -> v.s
      [] v.t = "number" -> NumText
      [] v.t = "nil"    -> NilText
      [] OTHER          -> <<"map[...]">>

\* getPolicyIDFromMetadata: the unchecked type assertion panics unless
\* metadata["details"] is a mapping; only the empty string is an error
getPolicyIDFromMetadata(metadata, policyIDKey) ==
    LET d == MapGet(metadata, "details") IN
    IF d.t # "map"
    THEN [panic |-> TRUE, err |-> "", id |-> EmptyStr]
    ELSE IF MapGet(d.m, policyIDKey) = JStr(EmptyStr)
    THEN [panic |-> FALSE, err |-> "empty policyID key", id |-> EmptyStr]
    ELSE [panic |-> FALSE, err |-> "", id |-> SprintV(MapGet(d.m, policyIDKey))]

\* contains
contains(list, item) == \E i \in 1..Len(list) : list[i] = item

\* fmt.Sprintf("%s - %s", filename, message)
LinePlain(filename, message) == filename \o <<" - ">> \o message

\* fmt.Sprintf("%s - %s: %s", filename, policyID, message)
LineWithID(filename, policyID, message) ==
    filename \o <<" - ">> \o policyID \o <<": ">> \o message

\* one range loop over the findings of a severity of one file, from index i:
\* acc is [panic, lines, ids]
RECURSIVE rangeFindings(_, _, _, _, _)
rangeFindings(acc, filename, findings, i, policyIDKey) ==
    IF acc.panic \/ i > Len(findings) THEN acc
    ELSE LET f == findings[i]
             r == getPolicyIDFromMetadata(f.Metadata, policyIDKey)
         IN  IF r.panic THEN [acc EXCEPT !.panic = TRUE]
             ELSE IF r.err # ""
             THEN rangeFindings(
                      [acc EXCEPT !.lines = Append(@, LinePlain(filename, f.Message))],
                      filename, findings, i + 1, policyIDKey)
             ELSE rangeFindings(
                      [acc EXCEPT
                          !.lines = Append(@, LineWithID(filename, r.id, f.Message)),
                          !.ids = IF contains(@, r.id) THEN @ ELSE Append(@, r.id)],
                      filename, findings, i + 1, policyIDKey)

\* the range loop over the results, from index i
RECURSIVE rangeResults(_, _, _, _)
rangeResults(a, results, i, policyIDKey) ==
    IF a.panic \/ i > Len(results) THEN a
    ELSE LET result == results[i]
             f == rangeFindings(
                      [panic |-> FALSE, lines |-> a.fails, ids |-> a.policiesWithFails],
                      result.Filename, result.Failures, 1, policyIDKey)
             w == rangeFindings(
                      [panic |-> f.panic, lines |-> a.warns, ids |-> a.policiesWithWarns],
                      result.Filename, result.Warnings, 1, policyIDKey)
         IN  rangeResults(
                 [panic |-> w.panic,
                  successes |-> a.successes + Len(result.Successes),
                  fails |-> f.lines, policiesWithFails |-> f.ids,
                  warns |-> w.lines, policiesWithWarns |-> w.ids],
                 results, i + 1, policyIDKey)

NoTally ==
    [panic |-> FALSE, successes |-> 0, fails |-> <<>>, policiesWithFails |-> <<>>,
     warns |-> <<>>, policiesWithWarns |-> <<>>]

\* the aggregation loop of run()
aggregate(results, policyIDKey) == rangeResults(NoTally, results, 1, policyIDKey)

\* ---------------------------------------------------------- comment rendering
\* template.Execute of commentTemplate: the text, piece by piece
renderTemplate(d) ==
    LET bullets(lines) == [i \in 1..Len(lines) |-> <<"* ">> \o lines[i]] IN
    <<<<"**Conftest has identified issues with your resources**">>>>
    \o (IF d.Fails # <<>>
        THEN <<<<"The following policy violations were identified.">>>> \o bullets(d.Fails)
        ELSE <<>>)
    \o (IF d.Warns # <<>>
        THEN <<<<"The following warnings were identified.">>>> \o bullets(d.Warns)
        ELSE <<>>)
    \o (IF d.DocsURL # EmptyStr
        THEN <<<<"For more information, see the [policy documentation](">>
                   \o d.DocsURL \o <<").">>>>
        ELSE <<>>)

\* getCommentJSON
getCommentJSON(comment) == [body |-> comment]

\* --------------------------------------------------------------- the driver
FILES              == <<"FILES">>
PULL_URL           == <<"PULL_URL">>
PULL_SECRET        == <<"PULL_SECRET">>
METRICS_URL        == <<"METRICS_URL">>
METRICS_SOURCE     == <<"METRICS_SOURCE">>
METRICS_DETAILS    == <<"METRICS_DETAILS">>
METRICS_TOKEN      == <<"METRICS_TOKEN">>
POLICY_ID_KEY      == <<"POLICY_ID_KEY">>
DOCS_URL           == <<"DOCS_URL">>
ADD_COMMENT        == <<"ADD_COMMENT">>
GITHUB_TOKEN       == <<"GITHUB_TOKEN">>
GITHUB_COMMENT_URL == <<"GITHUB_COMMENT_URL">>
NO_FAIL            == <<"NO_FAIL">>

NoViolationsLine == <<"No policy violations or warnings were identified.">>

\* main(): a returned error is printed and the process exits with 1
fail(s, msg) == [s EXCEPT !.pc = "done", !.err = msg, !.exit = 1]

\* main(): run() returned nil
succeed(s) == [s EXCEPT !.pc = "done", !.exit = 0]

\* the Go runtime ends the process with 2 on an unrecovered panic
crash(s) == [s EXCEPT !.pc = "done", !.err = "panic", !.exit = 2]

\* submitPost: nil for a 2xx response, an error for any other status and for
\* a request that could not be sent
submitPost(outcome) ==
    CASE outcome = "2xx"    -> ""
      [] outcome = "non2xx" -> "remote server error"
      [] OTHER              -> "submitting http request"

\* what the HTTP client can answer: a request to an empty URL is never sent
PostOutcomes(url) ==
    IF url = EmptyStr THEN {"transport"} ELSE {"2xx", "non2xx", "transport"}

\* run(), lines 87-100: up to the first external call
startRun(s, e, writeOK) ==
    IF Getenv(e, FILES) = EmptyStr
    THEN fail(s, "at least one file to test must be supplied")
    ELSE LET r == getFullPullURL(Getenv(e, PULL_URL), Getenv(e, PULL_SECRET), writeOK) IN
         IF r.err # "" THEN fail(s, "get full pull url")
         ELSE [s EXCEPT !.pc = IF r.url # EmptyStr THEN "pull" ELSE "test",
                        !.pullURL = r.url, !.gcs = r.gcs]

\* runConftestPull called a second time after a non-zero exit
conftestPullRetry(s, e, ok) ==
    LET c == [s EXCEPT !.calls = Append(@, [kind |-> "conftest pull", url |-> s.pullURL])]
        r == [c EXCEPT !.calls = Append(@, [kind |-> "conftest pull", url |-> s.pullURL])]
    IN  IF ~ok THEN fail(r, "runnning conftest pull") ELSE [c EXCEPT !.pc = "test"]

\* runConftestPull and its call site
conftestPull(s, e, ok) ==
    LET c == [s EXCEPT !.calls = Append(@, [kind |-> "conftest pull", url |-> s.pullURL])]
    IN  IF ~ok THEN fail(c, "runnning conftest pull") ELSE [c EXCEPT !.pc = "test"]

\* run(), lines 182-202, honouring NO_FAIL early: nothing is rendered or
\* posted when the override is set
reportQuietOnNoFail(s, e) ==
    IF s.tally.fails = <<>> /\ s.tally.warns = <<>>
    THEN succeed([s EXCEPT !.out = Append(@, NoViolationsLine)])
    ELSE IF ToLower(Getenv(e, NO_FAIL)) = StrTrue THEN succeed(s)
    ELSE LET t == renderTemplate([Fails |-> s.tally.fails, Warns |-> s.tally.warns,
                                  DocsURL |-> Getenv(e, DOCS_URL)])
             p == [s EXCEPT !.rendered = TRUE, !.comment = t, !.out = Append(@, t)]
         IN  IF Getenv(e, ADD_COMMENT) # StrTrue THEN succeed(p)
             ELSE [p EXCEPT !.pc = "comment"]

\* run(), lines 182-202, without the short-circuit for an empty result
reportAlwaysRender(s, e) ==
    LET t == renderTemplate([Fails |-> s.tally.fails, Warns |-> s.tally.warns,
                             DocsURL |-> Getenv(e, DOCS_URL)])
        p == [s EXCEPT !.rendered = TRUE, !.comment = t, !.out = Append(@, t)]
    IN  IF Getenv(e, ADD_COMMENT) # StrTrue THEN succeed(p)
        ELSE [p EXCEPT !.pc = "comment"]

\* run(), lines 182-202: the short-circuit, the render, the print and the
\* ADD_COMMENT test
report(s, e) ==
    IF s.tally.fails = <<>> /\ s.tally.warns = <<>>
    THEN succeed([s EXCEPT !.out = Append(@, NoViolationsLine)])
    ELSE LET t == renderTemplate([Fails |-> s.tally.fails, Warns |-> s.tally.warns,
                                  DocsURL |-> Getenv(e, DOCS_URL)])
             p == [s EXCEPT !.rendered = TRUE, !.comment = t, !.out = Append(@, t)]
         IN  IF Getenv(e, ADD_COMMENT) # StrTrue THEN succeed(p)
             ELSE [p EXCEPT !.pc = "comment"]

\* run(), lines 107-152: the aggregation and the metrics-source test
afterTest(s, e, results) ==
    LET a == aggregate(results, Getenv(e, POLICY_ID_KEY)) IN
    IF a.panic THEN crash(s)
    ELSE LET t == [s EXCEPT !.tally = a] IN
         IF Getenv(e, METRICS_URL) # EmptyStr
         THEN IF Getenv(e, METRICS_SOURCE) = EmptyStr
              THEN fail(t, "metrics-source must be specified if metrics-url is set")
              ELSE [t EXCEPT !.pc = "metrics"]
         ELSE report(t, e)

\* what conftest test printed, as json.Unmarshal sees it: a JSON array decoded
\* into results, or text it rejects
Parsed(rs)  == [json |-> "array", results |-> rs]
Unparseable == [json |-> "garbage", results |-> <<>>]
NotParsed   == [json |-> "none", results |-> <<>>]

\* runConftestTest and its call site; output is what conftest printed
conftestTest(s, e, output) ==
    LET args == <<<<"test">>, <<"--no-color">>, <<"--output">>, <<"json">>>>
                    \o getFlagsFromEnv(e) \o Split(Getenv(e, FILES), " ")
        c == [s EXCEPT !.calls = Append(@, [kind |-> "conftest test", args |-> args])]
    IN  IF output = Unparseable THEN fail(c, "running conftest")
        ELSE afterTest(c, e, output.results)

\* json.Marshal(metricsSubmission): Details has omitempty
metricsJSON(s, e, results) ==
    [sourceID  |-> Getenv(e, METRICS_SOURCE),
     successes |-> s.tally.successes,
     fails     |-> [count |-> Len(s.tally.fails), policyIDs |-> s.tally.policiesWithFails],
     warns     |-> [count |-> Len(s.tally.warns), policyIDs |-> s.tally.policiesWithWarns],
     details   |-> IF ToLower(Getenv(e, METRICS_DETAILS)) = StrTrue THEN results ELSE <<>>]

\* the metrics POST with its error returned by run()
submitMetricsFatal(s, e, results, outcome) ==
    LET c == [s EXCEPT
                 !.calls = Append(@, [kind |-> "POST metrics", url |-> Getenv(e, METRICS_URL),
                                      body |-> metricsJSON(s, e, results),
                                      authz |-> IF Getenv(e, METRICS_TOKEN) # EmptyStr
                                                THEN <<"Bearer ">> \o Getenv(e, METRICS_TOKEN)
                                                ELSE EmptyStr]),
                 !.metricsResp = outcome]
    IN  IF submitPost(outcome) # "" THEN fail(c, "submitting metrics") ELSE report(c, e)

\* run(), lines 154-180: the metrics POST, whose error is dropped
submitMetrics(s, e, results, outcome) ==
    LET c == [s EXCEPT
                 !.calls = Append(@, [kind |-> "POST metrics", url |-> Getenv(e, METRICS_URL),
                                      body |-> metricsJSON(s, e, results),
                                      authz |-> IF Getenv(e, METRICS_TOKEN) # EmptyStr
                                                THEN <<"Bearer ">> \o Getenv(e, METRICS_TOKEN)
                                                ELSE EmptyStr]),
                 !.metricsResp = outcome]
    IN  report(c, e)

\* run(), lines 204-220: the comment POST and the exit policy
postComment(s, e, outcome) ==
    LET c == [s EXCEPT
                 !.calls = Append(@, [kind |-> "POST comment", url |-> Getenv(e, GITHUB_COMMENT_URL),
                                      body |-> getCommentJSON(s.comment),
                                      authz |-> <<"token ">> \o Getenv(e, GITHUB_TOKEN)])]
    IN  IF submitPost(outcome) # "" THEN fail(c, "submitting comment")
        ELSE IF Len(s.tally.fails) > 0 /\ ToLower(Getenv(e, NO_FAIL)) # StrTrue
        THEN fail(c, "policy violations were found")
        ELSE succeed(c)

\* ================================================================== state
VARIABLES
    pullURL, pullSecret, pullRes,       \* the composer on its own
    flagEnv, flagsOut, flagsDone,       \* the flag derivation on its own
    aggResults, aggKey, aggOut, aggDone,\* the aggregation on its own
    aggAgain,   \* what aggregating the same results once more gives
    env,        \* the process environment of a run
    testOut,    \* what conftest test printed, once it has run
    st,         \* the run
    twEnv,      \* the environment of the twin run tw: env with NO_FAIL flipped
    tw,         \* the twin run: same inputs, NO_FAIL flipped
    mw          \* the twin run: same inputs, another answer to the metrics POST

pullVars == <<pullURL, pullSecret, pullRes>>
flagVars == <<flagEnv, flagsOut, flagsDone>>
aggVars  == <<aggResults, aggKey, aggOut, aggDone, aggAgain>>
runVars  == <<env, testOut, st, twEnv, tw, mw>>
vars     == <<pullVars, flagVars, aggVars, runVars>>

\* ------------------------------------------------ the composer on its own
BodyChars == {"/", "h", "?", "#", "@", ":", "8"}

SchemePrefixes == {EmptyStr, SchemeHTTPS, SchemeGCS, SchemeS3, SchemeOCI}

Bodies == UNION {[1..n -> BodyChars] : n \in 0..MaxBody}

PullURLs == {p \o b : p \in SchemePrefixes, b \in Bodies}

PullSecrets == {EmptyStr, <<"u", ":", "p">>}

NotRun == [url |-> EmptyStr, err |-> "not run", gcs |-> NoCreds]

InitPull ==
    /\ pullURL \in PullURLs
    /\ pullSecret \in PullSecrets
    /\ pullRes = NotRun

IdlePull == pullURL = EmptyStr /\ pullSecret = EmptyStr /\ pullRes = NotRun

ComposePull ==
    /\ pullRes = NotRun
    /\ \E writeOK \in BOOLEAN :
           pullRes' = getFullPullURL(pullURL, pullSecret, writeOK)
    /\ UNCHANGED <<pullURL, pullSecret, flagVars, aggVars, runVars>>

\* ------------------------------------------- the flag derivation on its own
FlagEnvNames == {COMBINE, POLICY, ALL_NAMESPACES, DATA, IRRELEVANT}

FlagValues ==
    { EmptyStr, StrTrue, <<"T", "R", "U", "E">>, <<"T", "r", "u", "e">>,
      StrFalse, <<"F", "a", "l", "s", "E">>, <<"p">> }

EmptyEnv == [n \in {} |-> EmptyStr]

InitFlags ==
    /\ flagEnv = EmptyEnv
    /\ flagsOut = <<>>
    /\ flagsDone = FALSE

IdleFlags == InitFlags

SetFlagEnv ==
    /\ ~flagsDone
    /\ \E n \in FlagEnvNames, v \in FlagValues : flagEnv' = Setenv(flagEnv, n, v)
    /\ UNCHANGED <<flagsOut, flagsDone, pullVars, aggVars, runVars>>

UnsetFlagEnv ==
    /\ ~flagsDone
    /\ \E n \in DOMAIN flagEnv : flagEnv' = Unsetenv(flagEnv, n)
    /\ UNCHANGED <<flagsOut, flagsDone, pullVars, aggVars, runVars>>

GetFlags ==
    /\ ~flagsDone
    /\ flagsOut' = getFlagsFromEnv(flagEnv)
    /\ flagsDone' = TRUE
    /\ UNCHANGED <<flagEnv, pullVars, aggVars, runVars>>

\* ---------------------------------------------- the aggregation on its own
StrPolicyID == <<"policyID">>
StrOtherKey == <<"id">>

\* metadata of a finding: absent; without "details"; "details" a string;
\* "details" an empty mapping; the ID under another key; an empty, a textual
\* and a numeric value under "policyID"
AllMetas ==
    { NilMap,
      [k \in {"other"} |-> JStr(<<"x">>)],
      [k \in {"details"} |-> JStr(<<"x">>)],
      [k \in {"details"} |-> JMap(NilMap)],
      [k \in {"details"} |-> JMap([j \in {StrOtherKey} |-> JStr(<<"P1">>)])],
      [k \in {"details"} |-> JMap([j \in {StrPolicyID} |-> JStr(EmptyStr)])],
      [k \in {"details"} |-> JMap([j \in {StrPolicyID} |-> JStr(<<"P1">>)])],
      [k \in {"details"} |-> JMap([j \in {StrPolicyID} |-> JStr(<<"P2">>)])],
      [k \in {"details"} |-> JMap([j \in {StrPolicyID} |-> JNum(7)])] }

Finding(m) == [Message |-> <<"bad">>, Metadata |-> m]

Passed == [Message |-> <<"ok">>, Metadata |-> NilMap]

CountFindings(rs) ==
    LET RECURSIVE sum(_)
        sum(i) == IF i > Len(rs) THEN 0
                  ELSE Len(rs[i].Failures) + Len(rs[i].Warnings) + sum(i + 1)
    IN  sum(1)

NoTallyYet == [NoTally EXCEPT !.panic = TRUE]

InitAgg ==
    /\ aggResults = <<>>
    /\ aggKey \in {StrPolicyID, StrOtherKey}
    /\ aggOut = NoTallyYet
    /\ aggDone = FALSE
    /\ aggAgain = NoTallyYet

IdleAgg ==
    /\ aggResults = <<>>
    /\ aggKey = StrPolicyID
    /\ aggOut = NoTallyYet
    /\ aggDone = FALSE
    /\ aggAgain = NoTallyYet

\* conftest reports on one more file
AddFile ==
    /\ ~aggDone
    /\ Len(aggResults) < MaxFiles
    /\ \E name \in {<<"a">>, <<"b">>} :
           aggResults' = Append(aggResults,
               [Filename |-> name, Successes |-> <<Passed>>,
                Failures |-> <<>>, Warnings |-> <<>>])
    /\ UNCHANGED <<aggKey, aggOut, aggDone, aggAgain, pullVars, flagVars, runVars>>

\* conftest reports one more failure for the last file
AddFailure ==
    /\ ~aggDone
    /\ aggResults # <<>>
    /\ CountFindings(aggResults) < MaxFindings
    /\ \E m \in AllMetas :
           aggResults' = [aggResults EXCEPT
               ![Len(aggResults)].Failures = Append(@, Finding(m))]
    /\ UNCHANGED <<aggKey, aggOut, aggDone, aggAgain, pullVars, flagVars, runVars>>

\* conftest reports one more warning for the last file
AddWarning ==
    /\ ~aggDone
    /\ aggResults # <<>>
    /\ CountFindings(aggResults) < MaxFindings
    /\ \E m \in AllMetas :
           aggResults' = [aggResults EXCEPT
               ![Len(aggResults)].Warnings = Append(@, Finding(m))]
    /\ UNCHANGED <<aggKey, aggOut, aggDone, aggAgain, pullVars, flagVars, runVars>>

Aggregate ==
    /\ ~aggDone
    /\ aggOut' = aggregate(aggResults, aggKey)
    /\ aggDone' = TRUE
    /\ UNCHANGED <<aggResults, aggKey, aggAgain, pullVars, flagVars, runVars>>

\* the same results go through the aggregation loop once more, its
\* accumulators declared afresh
AggregateAgain ==
    /\ aggDone
    /\ aggAgain = NoTallyYet
    /\ aggAgain' = aggregate(aggResults, aggKey)
    /\ UNCHANGED <<aggResults, aggKey, aggOut, aggDone, pullVars, flagVars, runVars>>

\* ------------------------------------------------------------------ the run
StrPolicy == <<"p", "o", "l", "i", "c", "y">>

RunEnvNames ==
    { FILES, PULL_URL, PULL_SECRET, METRICS_URL, METRICS_SOURCE, METRICS_DETAILS,
      METRICS_TOKEN, POLICY_ID_KEY, DOCS_URL, ADD_COMMENT, GITHUB_TOKEN,
      GITHUB_COMMENT_URL, NO_FAIL, COMBINE, POLICY, ALL_NAMESPACES, DATA }

NoFailValues == {EmptyStr, StrTrue, <<"T", "R", "U", "E">>}

\* the environment action.yml hands to the container: every input is set,
\* empty when the workflow gives none; the conftest flags keep their defaults
RunEnvs ==
    { [n \in RunEnvNames |->
         CASE n = FILES              -> files
           [] n = PULL_URL           -> purl
           [] n = PULL_SECRET        -> psec
           [] n = METRICS_URL        -> murl
           [] n = METRICS_SOURCE     -> msrc
           [] n = DOCS_URL           -> docs
           [] n = ADD_COMMENT        -> addc
           [] n = GITHUB_TOKEN       -> cred[1]
           [] n = GITHUB_COMMENT_URL -> cred[2]
           [] n = NO_FAIL            -> nofail
           [] n = POLICY_ID_KEY      -> StrPolicyID
           [] n = POLICY             -> StrPolicy
           [] n = ALL_NAMESPACES     -> StrTrue
           [] OTHER                  -> EmptyStr] :
      files \in {EmptyStr, <<"a">>},
      purl \in {EmptyStr, <<"h", "/", "p">>, <<"x">>},
      psec \in {EmptyStr},
      murl \in {EmptyStr, <<"m">>},
      msrc \in {EmptyStr, <<"repo">>},
      docs \in {EmptyStr, <<"d">>},
      addc \in {StrTrue, StrFalse},
      cred \in {EmptyStr, <<"t">>} \X {EmptyStr, <<"c">>},
      nofail \in NoFailValues }

RunMetas ==
    { NilMap,
      [k \in {"details"} |-> JMap(NilMap)],
      [k \in {"details"} |-> JMap([j \in {StrPolicyID} |-> JStr(EmptyStr)])],
      [k \in {"details"} |-> JMap([j \in {StrPolicyID} |-> JStr(<<"P1">>)])] }

FindingLists == UNION {[1..k -> {Finding(m) : m \in RunMetas}] : k \in 0..RunMaxFindings}

\* what json.Unmarshal can make of conftest's output: no result, or the
\* result for the one file
RunResults ==
    {<<>>} \cup
    { <<[Filename |-> <<"a">>, Successes |-> <<Passed>>, Failures |-> f, Warnings |-> w]>> :
          f \in FindingLists, w \in FindingLists }

TestOutputs == {Unparseable} \cup {Parsed(rs) : rs \in RunResults}

Fresh ==
    [pc |-> "start", pullURL |-> EmptyStr, gcs |-> NoCreds, tally |-> NoTally,
     rendered |-> FALSE, comment |-> <<>>, calls |-> <<>>, out |-> <<>>,
     err |-> "", exit |-> -1, metricsResp |-> "none"]

InitRun ==
    /\ env \in RunEnvs
    /\ \E flipped \in IF Getenv(env, NO_FAIL) = EmptyStr
                       THEN NoFailValues \ {EmptyStr} ELSE {EmptyStr} :
           twEnv = Setenv(env, NO_FAIL, flipped)
    /\ testOut = NotParsed
    /\ st = Fresh
    /\ tw = Fresh
    /\ mw = Fresh

IdleRun ==
    /\ env = EmptyEnv
    /\ twEnv = EmptyEnv
    /\ testOut = NotParsed
    /\ st = Fresh
    /\ tw = Fresh
    /\ mw = Fresh

\* an answer to a POST that differs from the given one
OtherOutcome(outcome) ==
    CASE outcome = "2xx"    -> "non2xx"
      [] outcome = "non2xx" -> "transport"
      [] OTHER              -> "2xx"

\* a twin takes the step the run takes when it stands at the same place; mw
\* has the environment and, up to the metrics POST, the inputs of st, so that
\* a step of st from the same state is its step too
follow(t, next) == IF t.pc = st.pc THEN next ELSE t

Start ==
    /\ st.pc = "start"
    /\ \E writeOK \in BOOLEAN :
           /\ st' = startRun(st, env, writeOK)
           /\ tw' = follow(tw, startRun(tw, twEnv, writeOK))
           /\ mw' = follow(mw, st')
    /\ UNCHANGED <<env, testOut, twEnv, pullVars, flagVars, aggVars>>

ConftestPull ==
    /\ st.pc = "pull"
    /\ \E ok \in BOOLEAN :
           /\ st' = conftestPull(st, env, ok)
           /\ tw' = follow(tw, conftestPull(tw, twEnv, ok))
           /\ mw' = follow(mw, st')
    /\ UNCHANGED <<env, testOut, twEnv, pullVars, flagVars, aggVars>>

ConftestTest ==
    /\ st.pc = "test"
    /\ \E output \in TestOutputs :
           /\ testOut' = output
           /\ st' = conftestTest(st, env, output)
           /\ tw' = follow(tw, conftestTest(tw, twEnv, output))
           /\ mw' = follow(mw, st')
    /\ UNCHANGED <<env, twEnv, pullVars, flagVars, aggVars>>

SubmitMetrics ==
    /\ st.pc = "metrics"
    /\ \E outcome \in PostOutcomes(Getenv(env, METRICS_URL)) :
           /\ st' = submitMetrics(st, env, testOut.results, outcome)
           /\ tw' = follow(tw, submitMetrics(tw, twEnv, testOut.results, outcome))
           /\ mw' = follow(mw, submitMetrics(mw, env, testOut.results,
                                              OtherOutcome(outcome)))
    /\ UNCHANGED <<env, testOut, twEnv, pullVars, flagVars, aggVars>>

PostComment ==
    /\ st.pc = "comment"
    /\ \E outcome \in PostOutcomes(Getenv(env, GITHUB_COMMENT_URL)) :
           /\ st' = postComment(st, env, outcome)
           /\ tw' = follow(tw, postComment(tw, twEnv, outcome))
           /\ mw' = follow(mw, postComment(mw, env, outcome))
    /\ UNCHANGED <<env, testOut, twEnv, pullVars, flagVars, aggVars>>

\* ========================================================== specifications
Init == InitRun /\ IdlePull /\ IdleFlags /\ IdleAgg

Next == Start \/ ConftestPull \/ ConftestTest \/ SubmitMetrics \/ PostComment

Spec == Init /\ [][Next]_vars

NextPull == ComposePull

InitPullOnly == InitPull /\ IdleFlags /\ IdleAgg /\ IdleRun

SpecPull == InitPullOnly /\ [][NextPull]_vars

NextFlags == SetFlagEnv \/ UnsetFlagEnv \/ GetFlags

InitFlagsOnly == InitFlags /\ IdlePull /\ IdleAgg /\ IdleRun

SpecFlags == InitFlagsOnly /\ [][NextFlags]_vars

NextAgg == AddFile \/ AddFailure \/ AddWarning \/ Aggregate \/ AggregateAgain

InitAggOnly == InitAgg /\ IdlePull /\ IdleFlags /\ IdleRun

SpecAgg == InitAggOnly /\ [][NextAgg]_vars

\* ================================================================ claims
\* "true" and "false" in any casing, letter by letter
IsTrueCI(v) ==
    /\ Len(v) = 4
    /\ v[1] \in {"t", "T"} /\ v[2] \in {"r", "R"}
    /\ v[3] \in {"u", "U"} /\ v[4] \in {"e", "E"}

IsFalseCI(v) ==
    /\ Len(v) = 5
    /\ v[1] \in {"f", "F"} /\ v[2] \in {"a", "A"} /\ v[3] \in {"l", "L"}
    /\ v[4] \in {"s", "S"} /\ v[5] \in {"e", "E"}

\* ============================================================ C1..C6 (Spec)
Done == st.pc = "done"

\* conftest's output was decoded: the run reached the aggregation
ParsedOK == testOut.json = "array"

\* the aggregation ran to its end
Aggregated == ParsedOK /\ st.exit # 2

FailureCount ==
    LET RECURSIVE sum(_)
        sum(i) == IF i > Len(testOut.results) THEN 0
                  ELSE Len(testOut.results[i].Failures) + sum(i + 1)
    IN  sum(1)

WarningCount ==
    LET RECURSIVE sum(_)
        sum(i) == IF i > Len(testOut.results) THEN 0
                  ELSE Len(testOut.results[i].Warnings) + sum(i + 1)
    IN  sum(1)

Called(s, kind) == \E i \in 1..Len(s.calls) : s.calls[i].kind = kind

\* C1 as stated: a run that got through the aggregation of results with one
\* or more failures, NO_FAIL not "true" in any casing, ends with exit code 1,
\* whatever the other options are.
C1_FailuresExitOne ==
    Done /\ Aggregated /\ FailureCount > 0 /\ ~IsTrueCI(Getenv(env, NO_FAIL))
        => st.exit = 1

\* C2 as stated: no run with NO_FAIL = "true" ends with exit code 1.
C2_NoFailNeverExitsOne ==
    Done /\ Getenv(env, NO_FAIL) = StrTrue => st.exit # 1

\* C3: two runs on the same inputs, one with NO_FAIL unset and one with it
\* "true" in some casing, stand at the same place after every step, have made
\* the same external calls with the same arguments and bodies, have written
\* the same credentials file and have printed the same text; they can differ
\* in nothing but the error and exit code they end with.
C3_NoFailOnlyChangesExit ==
    /\ IsTrueCI(Getenv(env, NO_FAIL)) # IsTrueCI(Getenv(twEnv, NO_FAIL))
    /\ tw.pc = st.pc
    /\ tw.calls = st.calls
    /\ tw.out = st.out
    /\ tw.rendered = st.rendered
    /\ tw.comment = st.comment
    /\ tw.gcs = st.gcs
    /\ (tw.exit # st.exit \/ tw.err # st.err) => Done

\* both runs posted the metrics and the comment, and ended differently
C3_Witness ==
    /\ Done
    /\ Called(st, "POST metrics") /\ Called(st, "POST comment")
    /\ Called(tw, "POST comment")
    /\ {st.exit, tw.exit} = {0, 1}

\* C4: two runs on the same inputs that get different answers to the metrics
\* POST stand at the same place after every step, with the same calls made,
\* the same template render, the same text printed and the same error and
\* exit code.
C4_MetricsOutcomeIrrelevant ==
    /\ mw.pc = st.pc
    /\ mw.calls = st.calls
    /\ mw.out = st.out
    /\ mw.rendered = st.rendered
    /\ mw.err = st.err
    /\ mw.exit = st.exit
    /\ st.metricsResp # "none" => mw.metricsResp # st.metricsResp

\* one run had its metrics accepted, the other had them refused, and both
\* went on to post the comment and to fail on the policy violations
C4_Witness ==
    /\ Done
    /\ st.metricsResp = "2xx" /\ mw.metricsResp = "non2xx"
    /\ Called(st, "POST comment") /\ Called(mw, "POST comment")
    /\ st.exit = 1 /\ st.err = "policy violations were found"

\* a required input is missing
ConfigError ==
    \/ Getenv(env, FILES) = EmptyStr
    \/ Getenv(env, METRICS_URL) # EmptyStr /\ Getenv(env, METRICS_SOURCE) = EmptyStr
    \/ /\ Getenv(env, ADD_COMMENT) = StrTrue
       /\ \/ Getenv(env, GITHUB_TOKEN) = EmptyStr
          \/ Getenv(env, GITHUB_COMMENT_URL) = EmptyStr

\* C5 as stated: a run whose configuration lacks a required input (FILES,
\* METRICS_SOURCE with METRICS_URL set, the comment credentials with
\* ADD_COMMENT "true") ends with exit code 1 and has made no subprocess or
\* network call.
C5_ConfigErrorsBeforeAnyCall ==
    Done /\ ConfigError => st.exit = 1 /\ st.calls = <<>>

ZeroFindings == ParsedOK /\ FailureCount = 0 /\ WarningCount = 0

MetricsConfigOK ==
    Getenv(env, METRICS_URL) = EmptyStr \/ Getenv(env, METRICS_SOURCE) # EmptyStr

LacksID(m, key) ==
    LET d == MapGet(m, "details") IN
    \/ d.t # "map"
    \/ key \notin DOMAIN d.m
    \/ d.m[key] = JStr(EmptyStr)

\* the findings of a severity in traversal order, each with its file name
RECURSIVE Flat(_, _, _)
Flat(rs, sev, i) ==
    IF i > Len(rs) THEN <<>>
    ELSE LET fs == IF sev = "fail" THEN rs[i].Failures ELSE rs[i].Warnings IN
         [k \in 1..Len(fs) |-> [Filename |-> rs[i].Filename, f |-> fs[k]]]
             \o Flat(rs, sev, i + 1)

PlainWhereNoID(flat, lines, ids) ==
    /\ Len(lines) = Len(flat)
    /\ \A i \in 1..Len(flat) :
           LacksID(flat[i].f.Metadata, aggKey) =>
               lines[i] = LinePlain(flat[i].Filename, flat[i].f.Message)
    /\ (\A i \in 1..Len(flat) : LacksID(flat[i].f.Metadata, aggKey)) => ids = <<>>

\* C7 as stated: the aggregation never stops on a finding, and a finding
\* without a policy ID gets the line "<filename> - <message>" and adds no ID
\* to the ID list of its severity.
C7_ExtractionNeverFailsHard ==
    aggDone =>
        /\ ~aggOut.panic
        /\ PlainWhereNoID(Flat(aggResults, "fail", 1), aggOut.fails,
                          aggOut.policiesWithFails)
        /\ PlainWhereNoID(Flat(aggResults, "warn", 1), aggOut.warns,
                          aggOut.policiesWithWarns)

\* ---------------------------------------------------------- C8, C9 (SpecPull)
PullDone == pullRes # NotRun

HasSlash(s) == Index(s, "/") # 0

\* C8 as stated: an empty PULL_URL gives an empty string and no error for
\* every secret, and every non-empty PULL_URL, whatever its shape, is returned
\* unchanged and without error when PULL_SECRET is empty.
C8_EmptySecretIdentityAnyShape ==
    PullDone =>
        /\ pullURL = EmptyStr => pullRes.url = EmptyStr /\ pullRes.err = ""
        /\ pullURL # EmptyStr /\ pullSecret = EmptyStr =>
               pullRes.url = pullURL /\ pullRes.err = ""

\* C8 amended: an empty PULL_URL gives an empty string and no error for every
\* secret; a non-empty PULL_URL that contains a "/" is returned unchanged and
\* without error when PULL_SECRET is empty, whatever its scheme; a non-empty
\* PULL_URL without any "/" is rejected as an invalid url for every secret.
C8_EmptySecretIdentity ==
    PullDone =>
        /\ pullURL = EmptyStr =>
               pullRes.url = EmptyStr /\ pullRes.err = "" /\ pullRes.gcs = NoCreds
        /\ pullURL # EmptyStr /\ HasSlash(pullURL) /\ pullSecret = EmptyStr =>
               pullRes.url = pullURL /\ pullRes.err = "" /\ pullRes.gcs = NoCreds
        /\ pullURL # EmptyStr /\ ~HasSlash(pullURL) =>
               pullRes.url = EmptyStr /\ pullRes.err = "invalid url"

\* an https URL with a path went through the composer with an empty secret
C8_Witness ==
    /\ PullDone
    /\ pullSecret = EmptyStr
    /\ pullURL = SchemeHTTPS \o <<"/", "/", "h", "/">>
    /\ pullRes.url = pullURL

\* C9 as stated: for a PULL_URL that starts with "https://" and a non-empty
\* PULL_SECRET the result is the input with "<secret>@" inserted right after
\* the "//", everything behind it (host, port, path, query, fragment) as given.
C9_HttpsInsertsSecret ==
    PullDone /\ HasPrefix(pullURL, SchemeHTTPS \o <<"/", "/">>)
             /\ pullSecret # EmptyStr =>
        /\ pullRes.err = ""
        /\ pullRes.url = SchemeHTTPS \o <<"/", "/">> \o pullSecret \o <<"@">>
                             \o From(pullURL, Len(SchemeHTTPS) + 3)


\* ------------------------------------------------------------ C10 (SpecFlags)
\* the reference rule, stated per variable and without ToLower
FlagCombine       == <<"-", "-", "c", "o", "m", "b", "i", "n", "e">>
FlagPolicy        == <<"-", "-", "p", "o", "l", "i", "c", "y">>
FlagAllNamespaces == <<"-", "-", "a", "l", "l", "-", "n", "a", "m", "e", "s", "p", "a", "c", "e", "s">>
FlagData          == <<"-", "-", "d", "a", "t", "a">>

RefEmit(ev, name, flag) ==
    IF name \notin DOMAIN ev \/ ev[name] = EmptyStr \/ IsFalseCI(ev[name]) THEN <<>>
    ELSE IF IsTrueCI(ev[name]) THEN <<flag>>
    ELSE <<flag, ev[name]>>

RefFlags(ev) ==
    RefEmit(ev, COMBINE, FlagCombine) \o RefEmit(ev, POLICY, FlagPolicy)
        \o RefEmit(ev, ALL_NAMESPACES, FlagAllNamespaces) \o RefEmit(ev, DATA, FlagData)

\* C10: whatever sequence of Setenv/Unsetenv calls built the environment,
\* getFlagsFromEnv returns the reference rule's flags: allowlist order, nothing
\* for unset/empty/"false", the bare flag for "true" in any casing, flag and
\* value otherwise, and nothing for a variable outside the allowlist.
C10_FlagsFollowReferenceRule == flagsDone => flagsOut = RefFlags(flagEnv)

\* all three kinds of value and a variable outside the allowlist, in one run
C10_Witness ==
    /\ flagsDone
    /\ Getenv(flagEnv, COMBINE) = <<"T", "R", "U", "E">>
    /\ Getenv(flagEnv, POLICY) = <<"p">>
    /\ Getenv(flagEnv, ALL_NAMESPACES) = <<"F", "a", "l", "s", "E">>
    /\ DATA \notin DOMAIN flagEnv
    /\ Getenv(flagEnv, IRRELEVANT) = StrTrue
    /\ flagsOut = <<FlagCombine, FlagPolicy, <<"p">>>>

\* ============================================================== C11 (Spec)
\* the four external calls, in the order run() has them
CallOrder == <<"conftest pull", "conftest test", "POST metrics", "POST comment">>

Rank(kind) == CHOOSE i \in 1..Len(CallOrder) : CallOrder[i] = kind

TimesCalled(s, kind) == Cardinality({i \in 1..Len(s.calls) : s.calls[i].kind = kind})

\* the run has left the step that makes the call
PastPull == st.pc \notin {"start", "pull"} /\ st.pullURL # EmptyStr

PullFailed == st.err = "runnning conftest pull"

PastTest ==
    \/ st.pc \in {"metrics", "comment"}
    \/ /\ Done
       /\ st.err \notin {"at least one file to test must be supplied",
                         "get full pull url", "runnning conftest pull"}

PastMetrics ==
    /\ st.pc \in {"comment", "done"}
    /\ Aggregated
    /\ Getenv(env, METRICS_URL) # EmptyStr
    /\ Getenv(env, METRICS_SOURCE) # EmptyStr

PastComment == Done /\ st.rendered /\ Getenv(env, ADD_COMMENT) = StrTrue

\* C11: at every point of every run the external calls made so far are in
\* the order pull, test, metrics POST, comment POST with none of them made
\* twice; a call has been made exactly when the run has passed its step; and
\* a run whose pull failed is over with exit code 1 and no test call.
C11_CallsOnceInOrder ==
    /\ \A i, j \in 1..Len(st.calls) :
           i < j => Rank(st.calls[i].kind) < Rank(st.calls[j].kind)
    /\ TimesCalled(st, "conftest pull") = (IF PastPull THEN 1 ELSE 0)
    /\ TimesCalled(st, "conftest test") = (IF PastTest THEN 1 ELSE 0)
    /\ TimesCalled(st, "POST metrics") = (IF PastMetrics THEN 1 ELSE 0)
    /\ TimesCalled(st, "POST comment") = (IF PastComment THEN 1 ELSE 0)
    /\ PullFailed => Done /\ st.exit = 1 /\ ~Called(st, "conftest test")

\* a run that made all four calls, the comment POST answered with an error
C11_Witness ==
    /\ Done
    /\ [i \in 1..Len(st.calls) |-> st.calls[i].kind] = CallOrder
    /\ st.err = "submitting comment"

\* =========================================================== C12 (SpecAgg)
\* the policy ID of a finding that has one
IDOf(m, key) == SprintV(MapGet(m, "details").m[key])

\* the line of a finding: with the ID where it has one, plain where not
LineOf(x, key) ==
    IF LacksID(x.f.Metadata, key)
    THEN LinePlain(x.Filename, x.f.Message)
    ELSE LineWithID(x.Filename, IDOf(x.f.Metadata, key), x.f.Message)

NoDuplicate(list) == \A i, j \in 1..Len(list) : list[i] = list[j] => i = j

Elements(list) == {list[i] : i \in 1..Len(list)}

\* the lines and IDs of one severity against the findings of that severity
OneLinePerFinding(flat, lines, ids) ==
    /\ Len(lines) = Len(flat)
    /\ \A i \in 1..Len(flat) : lines[i] = LineOf(flat[i], aggKey)
    /\ NoDuplicate(ids)
    /\ Elements(ids) =
           {IDOf(flat[i].f.Metadata, aggKey) :
                i \in {k \in 1..Len(flat) : ~LacksID(flat[k].f.Metadata, aggKey)}}

\* the metrics submission built from a tally
MetricsOf(tally) ==
    metricsJSON([tally |-> tally], [n \in {METRICS_SOURCE} |-> <<"repo">>], aggResults)

\* C12 as stated: for every result list the aggregation delivers, per
\* severity, one line per finding in traversal order (files in result order,
\* findings in result order), an ID list without duplicates that is exactly
\* the set of IDs of the findings that have one, metrics counts equal to the
\* number of findings; and aggregating the same list again gives the same
\* line lists and the same ID sets.
C12_OrderPreservingDistinctIDs ==
    /\ aggDone =>
           /\ ~aggOut.panic
           /\ OneLinePerFinding(Flat(aggResults, "fail", 1), aggOut.fails,
                                aggOut.policiesWithFails)
           /\ OneLinePerFinding(Flat(aggResults, "warn", 1), aggOut.warns,
                                aggOut.policiesWithWarns)
           /\ MetricsOf(aggOut).fails.count = Len(Flat(aggResults, "fail", 1))
           /\ MetricsOf(aggOut).warns.count = Len(Flat(aggResults, "warn", 1))
    /\ aggAgain # NoTallyYet =>
           /\ aggAgain.fails = aggOut.fails
           /\ aggAgain.warns = aggOut.warns
           /\ Elements(aggAgain.policiesWithFails) = Elements(aggOut.policiesWithFails)
           /\ Elements(aggAgain.policiesWithWarns) = Elements(aggOut.policiesWithWarns)
====
